---- MODULE Spec2Model ----
(***************************************************************************)
(* The Detection Viewer component (a React function component) in its two  *)
(* variants: src/src/App.js calls the REST endpoint /predict with fetch,   *)
(* src/unnamed/part_000 calls the hosted model through a client library.   *)
(* The state is the component's useState cells, the browser's blob URL     *)
(* registry, the pending image-load event and the detection requests in    *)
(* flight.  Each action is one event handler (or the continuation of the   *)
(* one asynchronous call) followed by the re-render and effect cleanup it  *)
(* causes.                                                                 *)
(***************************************************************************)
EXTENDS Integers, Sequences, FiniteSets, TLC

\* ------------------------------------------------------------------ bounds
MaxUrls == 3
MaxRequests == 2
MaxDets == 1

\* ------------------------------------------------------------------ values
\* JavaScript's null: the initial value of every nullable useState cell.
Null == [null |-> TRUE]

\* "rest" is src/src/App.js, "client" is src/unnamed/part_000.
Variants == {"rest", "client"}

\* The File objects the native picker can hand over.
Files == {[name |-> "a.png"], [name |-> "b.png"]}

\* What a change event of the file input carries: no file (picker
\* cancelled) or one file.
FileLists == {<<>>} \cup {<<f>> : f \in Files}

\* naturalWidth / naturalHeight of the image decoded from a file.
NaturalSize(file) ==
    IF file.name = "a.png" THEN [width |-> 4, height |-> 2]
                           ELSE [width |-> 2, height |-> 2]

\* offsetWidth / offsetHeight the layout can give the <img> element.
DisplaySizes == {[width |-> 2, height |-> 1], [width |-> 4, height |-> 2]}

\* Confidence in units of 1/10000, box corners in natural pixels.
Confidences == {8567}
Boxes == {<<0, 0, 2, 1>>, <<1, 1, 2, 2>>}

\* The two representations a backend uses for one detection.
ObjectEntry(c, b) ==
    [name |-> "pothole", confidence |-> c,
     box |-> [x1 |-> b[1], y1 |-> b[2], x2 |-> b[3], y2 |-> b[4]]]
ArrayEntry(c, b) ==
    [class_name |-> "pothole", confidence |-> c, bbox |-> b]
RawEntries ==
    {ObjectEntry(c, b) : c \in Confidences, b \in Boxes}
        \cup {ArrayEntry(c, b) : c \in Confidences, b \in Boxes}

RECURSIVE ListsUpTo(_, _)
ListsUpTo(S, n) ==
    IF n = 0 THEN {<<>>}
    ELSE LET shorter == ListsUpTo(S, n - 1)
         IN shorter \cup {Append(l, e) : l \in {x \in shorter : Len(x) = n - 1}, e \in S}
RawLists == ListsUpTo(RawEntries, MaxDets)

\* The error messages the component can show.
MsgSelectImage == [message |-> "Please select an image first."]
MsgClientNotReady == [message |-> "Client not ready. Please wait."]
MsgConnectFailed ==
    [message |-> "Failed to connect to the detection service. Please refresh the page."]
MsgDetectFailed(cause) == [message |-> "Failed to detect objects", cause |-> cause]

\* ------------------------------------------------------------------ state
VARIABLES
    variant,                    \* which of the two source files runs
    mounted,                    \* the component is mounted
    client,                     \* useState(null): the connected client
    connecting,                 \* Client.connect has not settled yet
    imageFile,                  \* useState(null)
    imagePreview,               \* useState(null): the blob URL
    detections,                 \* useState([])
    isLoading,                  \* useState(false)
    error,                      \* useState(null)
    originalImageDimensions,    \* useState(null)
    displayedImageDimensions,   \* useState(null)
    imageLoadPending,           \* the <img> has a load event to deliver
    urlCount,                   \* blob URLs created so far
    revoked,                    \* revokeObjectURL calls per blob URL
    inflight,                   \* detection requests awaiting their response
    reqCount,                   \* outbound calls issued so far
    appliedFrom,                \* file of the request whose response was applied last
    lastEvent                   \* the handler that ran last

vars == <<variant, mounted, client, connecting, imageFile, imagePreview,
          detections, isLoading, error, originalImageDimensions,
          displayedImageDimensions, imageLoadPending, urlCount, revoked,
          inflight, reqCount, appliedFrom, lastEvent>>

Init ==
    /\ variant \in Variants
    /\ mounted = TRUE
    /\ client = Null
    /\ connecting = (variant = "client")
    /\ imageFile = Null
    /\ imagePreview = Null
    /\ detections = <<>>
    /\ isLoading = FALSE
    /\ error = Null
    /\ originalImageDimensions = Null
    /\ displayedImageDimensions = Null
    /\ imageLoadPending = FALSE
    /\ urlCount = 0
    /\ revoked = [u \in {} |-> 0]
    /\ inflight = {}
    /\ reqCount = 0
    /\ appliedFrom = Null
    /\ lastEvent = "mount"

\* ------------------------------------------------------------------ rendering
detectDisabledRestIgnoresLoading == imageFile = Null
detectDisabledClientIgnoresClient == imageFile = Null \/ isLoading

\* The disabled attribute of the Detect Objects button.
detectDisabledRest == imageFile = Null \/ isLoading
detectDisabledClient == imageFile = Null \/ isLoading \/ client = Null
detectDisabled ==
    IF variant = "rest" THEN detectDisabledRest ELSE detectDisabledClient

\* The JavaScript numbers of the scaling, kept as exact fractions.
Frac(n, d) == [num |-> n, den |-> d]
Times(x, f) == [num |-> x * f.num, den |-> f.den]
FracEq(f, g) == f.num * g.den = g.num * f.den

getScaleFactorsDefaultsToOne ==
    IF originalImageDimensions = Null \/ displayedImageDimensions = Null
    THEN [scaleX |-> Frac(1, 1), scaleY |-> Frac(1, 1)]
    ELSE [scaleX |-> Frac(displayedImageDimensions.width,
                          originalImageDimensions.width),
          scaleY |-> Frac(displayedImageDimensions.height,
                          originalImageDimensions.height)]

\* getScaleFactors(), evaluated by every render.
getScaleFactors ==
    IF originalImageDimensions = Null \/ displayedImageDimensions = Null
    THEN Null
    ELSE [scaleX |-> Frac(displayedImageDimensions.width,
                          originalImageDimensions.width),
          scaleY |-> Frac(displayedImageDimensions.height,
                          originalImageDimensions.height)]
scaleFactors == getScaleFactors

overlayStyleWidthFromX2(box, sf) ==
    [left |-> Times(box.x1, sf.scaleX),
     top |-> Times(box.y1, sf.scaleY),
     width |-> Times(box.x2, sf.scaleX),
     height |-> Times(box.y2 - box.y1, sf.scaleY)]

\* The style object of one bounding box, in px.
overlayStyle(box, sf) ==
    [left |-> Times(box.x1, sf.scaleX),
     top |-> Times(box.y1, sf.scaleY),
     width |-> Times(box.x2 - box.x1, sf.scaleX),
     height |-> Times(box.y2 - box.y1, sf.scaleY)]

\* The label `{name} ({(confidence * 100).toFixed(1)}%)`: the percentage
\* in tenths, rounded from the confidence in 1/10000.
overlayLabel(det) ==
    [name |-> det.name, tenths |-> (det.confidence + 5) \div 10]

\* The callback of detections.map in the render.
RECURSIVE overlaysOf(_, _)
overlaysOf(dets, sf) ==
    IF Len(dets) = 0 THEN <<>>
    ELSE <<[style |-> overlayStyle(Head(dets).box, sf),
            label |-> overlayLabel(Head(dets))]>> \o overlaysOf(Tail(dets), sf)

\* The render reads box.x1 of an entry that has no box and throws.
renderThrows ==
    /\ imagePreview # Null
    /\ scaleFactors # Null
    /\ \E i \in 1..Len(detections) : "box" \notin DOMAIN detections[i]

\* The bounding boxes the render puts over the image: none without a
\* preview, none without scale factors; a render that throws commits
\* nothing.
overlays ==
    IF imagePreview = Null \/ scaleFactors = Null \/ renderThrows
    THEN <<>>
    ELSE overlaysOf(detections, scaleFactors)

jsonPanelIgnoresLength == TRUE

\* The JSON results panel is rendered.
jsonPanel == Len(detections) > 0

\* ------------------------------------------------------------------ blob URLs
\* URL.createObjectURL(file): a fresh blob URL.
createObjectURL == [blob |-> urlCount + 1]

\* URL.revokeObjectURL(url), guarded as in the source by
\* `imagePreview && imagePreview.startsWith('blob:')`.
revokeIfBlob(reg, preview) ==
    IF preview # Null /\ "blob" \in DOMAIN preview
    THEN [reg EXCEPT ![preview.blob] = @ + 1]
    ELSE reg

\* The cleanup of the [imagePreview] effect: it runs when the preview
\* changes and at unmount, with the preview captured by the render that
\* installed it.
effectCleanup(reg, captured) == revokeIfBlob(reg, captured)

\* ------------------------------------------------------------------ events
\* Client.connect settles (client variant, started once at mount).
connectClient(ok) ==
    /\ connecting
    /\ connecting' = FALSE
    /\ IF ~mounted THEN UNCHANGED <<client, error>>
       ELSE IF ok THEN client' = [app |-> "YeeZ1/yolo_detector"] /\ UNCHANGED error
       ELSE error' = MsgConnectFailed /\ UNCHANGED client
    /\ lastEvent' = IF ok THEN "connect:resolved" ELSE "connect:rejected"
    /\ UNCHANGED <<variant, mounted, imageFile, imagePreview, detections,
                   isLoading, originalImageDimensions, displayedImageDimensions,
                   imageLoadPending, urlCount, revoked, inflight, reqCount,
                   appliedFrom>>

resetStateKeepsError ==
    /\ detections' = <<>>
    /\ originalImageDimensions' = Null
    /\ displayedImageDimensions' = Null
    /\ UNCHANGED error

\* The "Reset state" block of handleFileSelect.
resetState ==
    /\ detections' = <<>>
    /\ error' = Null
    /\ originalImageDimensions' = Null
    /\ displayedImageDimensions' = Null

handleFileSelectNoEarlyReturn(files) ==
    /\ mounted
    /\ IF Len(files) = 0
       THEN /\ resetState
            /\ revoked' = revokeIfBlob(revoked, imagePreview)
            /\ lastEvent' = "handleFileSelect:cancel"
            /\ UNCHANGED <<imageFile, imagePreview, imageLoadPending, urlCount,
                           appliedFrom>>
       ELSE /\ urlCount < MaxUrls
            /\ resetState
            /\ imageFile' = files[1]
            /\ imagePreview' = createObjectURL
            /\ urlCount' = urlCount + 1
            /\ revoked' = effectCleanup(
                              revokeIfBlob([u \in 1..(urlCount + 1) |->
                                               IF u <= urlCount THEN revoked[u] ELSE 0],
                                           imagePreview),
                              imagePreview)
            /\ imageLoadPending' = TRUE
            /\ appliedFrom' = Null
            /\ lastEvent' = "handleFileSelect"
    /\ UNCHANGED <<variant, mounted, client, connecting, isLoading, inflight, reqCount>>

\* The change event of the file input.
handleFileSelect(files) ==
    /\ mounted
    /\ IF Len(files) = 0
       THEN /\ lastEvent' = "handleFileSelect:cancel"
            /\ UNCHANGED <<imageFile, imagePreview, detections, error,
                           originalImageDimensions, displayedImageDimensions,
                           imageLoadPending, urlCount, revoked, appliedFrom>>
       ELSE /\ urlCount < MaxUrls
            /\ resetState
            /\ imageFile' = files[1]
            /\ imagePreview' = createObjectURL
            /\ urlCount' = urlCount + 1
               \* the handler's own revoke, then the effect cleanup that the
               \* changed preview triggers, both on the replaced preview
            /\ revoked' = effectCleanup(
                              revokeIfBlob([u \in 1..(urlCount + 1) |->
                                               IF u <= urlCount THEN revoked[u] ELSE 0],
                                           imagePreview),
                              imagePreview)
            /\ imageLoadPending' = TRUE
            /\ appliedFrom' = Null
            /\ lastEvent' = "handleFileSelect"
    /\ UNCHANGED <<variant, mounted, client, connecting, isLoading, inflight, reqCount>>

\* The load event of the <img> element showing the preview.
onImageLoad(size) ==
    /\ mounted
    /\ imageLoadPending
    /\ originalImageDimensions' = NaturalSize(imageFile)
    /\ displayedImageDimensions' = size
    /\ imageLoadPending' = FALSE
    /\ lastEvent' = "onImageLoad"
    /\ UNCHANGED <<variant, mounted, client, connecting, imageFile, imagePreview,
                   detections, isLoading, error, urlCount, revoked, inflight,
                   reqCount, appliedFrom>>

handleResizeSetsBothDimensions(size) ==
    /\ mounted
    /\ displayedImageDimensions' =
           IF imagePreview # Null THEN size ELSE displayedImageDimensions
    /\ originalImageDimensions' =
           IF imagePreview # Null THEN size ELSE originalImageDimensions
    /\ lastEvent' = "handleResize"
    /\ UNCHANGED <<variant, mounted, client, connecting, imageFile, imagePreview,
                   detections, isLoading, error, imageLoadPending, urlCount,
                   revoked, inflight, reqCount, appliedFrom>>

\* The window's resize event; imageRef.current is the <img>, which is
\* rendered exactly when imagePreview is set.
handleResize(size) ==
    /\ mounted
    /\ displayedImageDimensions' =
           IF imagePreview # Null THEN size ELSE displayedImageDimensions
    /\ lastEvent' = "handleResize"
    /\ UNCHANGED <<variant, mounted, client, connecting, imageFile, imagePreview,
                   detections, isLoading, error, originalImageDimensions,
                   imageLoadPending, urlCount, revoked, inflight, reqCount,
                   appliedFrom>>

\* ------------------------------------------------------------------ detection
beginRequestNoLoading ==
    /\ reqCount < MaxRequests
    /\ UNCHANGED isLoading
    /\ detections' = <<>>
    /\ error' = Null
    /\ inflight' = inflight \cup {[id |-> reqCount + 1, file |-> imageFile]}
    /\ reqCount' = reqCount + 1
    /\ appliedFrom' = Null

beginRequestKeepsError ==
    /\ reqCount < MaxRequests
    /\ isLoading' = TRUE
    /\ detections' = <<>>
    /\ UNCHANGED error
    /\ inflight' = inflight \cup {[id |-> reqCount + 1, file |-> imageFile]}
    /\ reqCount' = reqCount + 1
    /\ appliedFrom' = Null

beginRequestKeepsDetections ==
    /\ reqCount < MaxRequests
    /\ isLoading' = TRUE
    /\ UNCHANGED detections
    /\ error' = Null
    /\ inflight' = inflight \cup {[id |-> reqCount + 1, file |-> imageFile]}
    /\ reqCount' = reqCount + 1
    /\ appliedFrom' = Null

\* detectObjects up to its await: the guard, the three setters and the
\* outbound call, which captures the file selected at that moment.
beginRequest ==
    /\ reqCount < MaxRequests
    /\ isLoading' = TRUE
    /\ detections' = <<>>
    /\ error' = Null
    /\ inflight' = inflight \cup {[id |-> reqCount + 1, file |-> imageFile]}
    /\ reqCount' = reqCount + 1
    /\ appliedFrom' = Null

detectObjectsRestNoGuard == beginRequest

detectObjectsClientNoClientCheck ==
    IF imageFile = Null
    THEN /\ error' = MsgSelectImage
         /\ UNCHANGED <<isLoading, detections, inflight, reqCount, appliedFrom>>
    ELSE beginRequest

detectObjectsRest ==
    IF imageFile = Null
    THEN /\ error' = MsgSelectImage
         /\ UNCHANGED <<isLoading, detections, inflight, reqCount, appliedFrom>>
    ELSE beginRequest

detectObjectsClient ==
    IF imageFile = Null \/ client = Null
    THEN /\ error' = IF client = Null THEN MsgClientNotReady ELSE MsgSelectImage
         /\ UNCHANGED <<isLoading, detections, inflight, reqCount, appliedFrom>>
    ELSE beginRequest

detectObjects ==
    /\ IF variant = "rest" THEN detectObjectsRest ELSE detectObjectsClient
    /\ lastEvent' = "detectObjects"
    /\ UNCHANGED <<variant, mounted, client, connecting, imageFile, imagePreview,
                   originalImageDimensions, displayedImageDimensions,
                   imageLoadPending, urlCount, revoked>>

\* A click on the Detect Objects button: a disabled button delivers none,
\* and the render that follows a click is committed before the next event.
ClickDetect == mounted /\ ~detectDisabled /\ detectObjects

\* detectObjects called as a function, without the button in front of it.
InvokeDetect == mounted /\ detectObjects

\* What the REST endpoint can answer: fetch rejects, a non-success status,
\* a body that is not JSON, or JSON carrying the list directly or under
\* the detections key.
RestResponses ==
    {[kind |-> "rejected"], [kind |-> "status"], [kind |-> "unparsable"]}
        \cup {[kind |-> "json", underKey |-> k, list |-> l] :
                 k \in BOOLEAN, l \in RawLists}

\* The message of the error the try block throws on resp, "" when it
\* runs to its end.
restFailure(resp) ==
    IF resp.kind = "rejected" THEN "Failed to fetch"
    ELSE IF resp.kind = "status" THEN "API Error: 500 Internal Server Error"
    ELSE IF resp.kind = "unparsable" THEN "Unexpected token"
    ELSE IF ~resp.underKey THEN "result.detections is undefined"
    ELSE IF \E i \in 1..Len(resp.list) : "bbox" \notin DOMAIN resp.list[i]
         THEN "det.bbox is undefined"
    ELSE ""

\* The element function of result.detections.map.
formatDetection(det) ==
    [name |-> det.class_name, confidence |-> det.confidence,
     box |-> [x1 |-> det.bbox[1], y1 |-> det.bbox[2],
              x2 |-> det.bbox[3], y2 |-> det.bbox[4]]]

RECURSIVE formattedDetections(_)
formattedDetections(list) ==
    IF Len(list) = 0 THEN <<>>
    ELSE <<formatDetection(Head(list))>> \o formattedDetections(Tail(list))

continueRestNoFinally(resp) ==
    IF restFailure(resp) = ""
    THEN detections' = formattedDetections(resp.list) /\ isLoading' = FALSE
         /\ UNCHANGED error
    ELSE error' = MsgDetectFailed(restFailure(resp))
         /\ UNCHANGED <<detections, isLoading>>

\* detectObjects after its await (REST variant): try, catch, finally.
continueRest(resp) ==
    /\ IF restFailure(resp) = ""
       THEN detections' = formattedDetections(resp.list) /\ UNCHANGED error
       ELSE error' = MsgDetectFailed(restFailure(resp)) /\ UNCHANGED detections
    /\ isLoading' = FALSE

\* What client.predict can answer: it rejects, a result without a data
\* array, a data array whose first element is null, or one whose first
\* element is the list.
ClientResponses ==
    {[kind |-> "rejected"], [kind |-> "nodata"], [kind |-> "empty"]}
        \cup {[kind |-> "data", list |-> l] : l \in RawLists}

clientFailure(resp) ==
    IF resp.kind = "rejected" THEN "Could not connect"
    ELSE IF resp.kind = "nodata" THEN "result.data is undefined"
    ELSE ""

continueClientNoFinally(resp) ==
    IF clientFailure(resp) = ""
    THEN detections' = (IF resp.kind = "empty" THEN <<>> ELSE resp.list)
         /\ isLoading' = FALSE /\ UNCHANGED error
    ELSE error' = MsgDetectFailed(clientFailure(resp))
         /\ UNCHANGED <<detections, isLoading>>

\* detectObjects after its await (client variant): try, catch, finally.
continueClient(resp) ==
    /\ IF clientFailure(resp) = ""
       THEN detections' = (IF resp.kind = "empty" THEN <<>> ELSE resp.list)
            /\ UNCHANGED error
       ELSE error' = MsgDetectFailed(clientFailure(resp)) /\ UNCHANGED detections
    /\ isLoading' = FALSE

Responses == IF variant = "rest" THEN RestResponses ELSE ClientResponses
failure(resp) ==
    IF variant = "rest" THEN restFailure(resp) ELSE clientFailure(resp)

\* The outbound call of request r settles with resp and detectObjects
\* resumes; the setters of an unmounted component change nothing.
receiveResponse(r, resp) ==
    /\ r \in inflight
    /\ inflight' = inflight \ {r}
    /\ IF mounted
       THEN /\ IF variant = "rest" THEN continueRest(resp) ELSE continueClient(resp)
            /\ appliedFrom' = r.file
       ELSE UNCHANGED <<detections, error, isLoading, appliedFrom>>
    /\ lastEvent' = IF failure(resp) = "" THEN "response:success" ELSE "response:failure"
    /\ UNCHANGED <<variant, mounted, client, connecting, imageFile, imagePreview,
                   originalImageDimensions, displayedImageDimensions,
                   imageLoadPending, urlCount, revoked, reqCount>>

\* The component is torn down: the effect cleanup runs a last time.
unmount ==
    /\ mounted
    /\ mounted' = FALSE
    /\ revoked' = effectCleanup(revoked, imagePreview)
    /\ lastEvent' = "unmount"
    /\ UNCHANGED <<variant, client, connecting, imageFile, imagePreview,
                   detections, isLoading, error, originalImageDimensions,
                   displayedImageDimensions, imageLoadPending, urlCount,
                   inflight, reqCount, appliedFrom>>

\* ------------------------------------------------------------------ specifications
Connect == \E ok \in BOOLEAN : connectClient(ok)
Select == \E files \in FileLists : handleFileSelect(files)
ImageLoad == \E size \in DisplaySizes : onImageLoad(size)
Resize == \E size \in DisplaySizes : handleResize(size)
Respond == \E r \in inflight : \E resp \in Responses : receiveResponse(r, resp)

\* The component driven through its user interface.
Next ==
    \/ Connect
    \/ Select
    \/ ImageLoad
    \/ Resize
    \/ ClickDetect
    \/ Respond
    \/ unmount
Spec == Init /\ [][Next]_vars

\* The same, with every outbound call settling eventually.
LiveSpec == Spec /\ WF_vars(Respond)

\* The same as Spec, with detectObjects also called directly.
NextCall == Next \/ InvokeDetect
SpecCall == Init /\ [][NextCall]_vars

\* ------------------------------------------------------------------ claims
\* C1: the response of a request made for one image is never applied
\* while a different image is the current one: whenever detections or
\* error hold what a response put there, that response belongs to a
\* request made for the current image.
StaleResponseNeverApplied ==
    appliedFrom # Null => appliedFrom = imageFile

\* C2: every blob URL created by a file selection is revoked at most
\* once at any time, and exactly once when the component is torn down.
BlobReleasedExactlyOnce ==
    /\ \A u \in DOMAIN revoked : revoked[u] <= 1
    /\ ~mounted => \A u \in DOMAIN revoked : revoked[u] = 1

\* C3: with every outbound call settling eventually, a component that
\* is loading eventually stops loading (or is torn down, after which
\* nothing is rendered), whatever the call's outcome.
LoadingEventuallyCleared ==
    (mounted /\ isLoading) ~> (~mounted \/ ~isLoading)
LoadingClearedAfterMalformedPayload ==
    /\ mounted
    /\ ~isLoading
    /\ lastEvent = "response:failure"
    /\ error \in {MsgDetectFailed("det.bbox is undefined"),
                  MsgDetectFailed("result.data is undefined")}

\* C4: a file selection that carries a file leaves detections empty,
\* error null and both dimension records null, and issues no request in
\* the same step, so any request for the new image comes after the
\* clearing.
SelectClearsBeforeRequest ==
    [][lastEvent' = "handleFileSelect" =>
          /\ detections' = <<>>
          /\ error' = Null
          /\ originalImageDimensions' = Null
          /\ displayedImageDimensions' = Null
          /\ inflight' = inflight
          /\ reqCount' = reqCount]_vars
ReselectedAfterRequest ==
    /\ lastEvent = "handleFileSelect"
    /\ urlCount >= 2
    /\ reqCount >= 1
    /\ error = Null
    /\ originalImageDimensions = Null

\* C5: detectObjects invoked while no image is selected sets a non-null
\* error, issues no network call and does not enter the loading state.
DetectWithoutImageFails ==
    [][(imageFile = Null /\ lastEvent' = "detectObjects") =>
          /\ error' # Null
          /\ ~isLoading'
          /\ inflight' = inflight
          /\ reqCount' = reqCount]_vars
DetectInvokedWithoutImage ==
    /\ imageFile = Null
    /\ lastEvent = "detectObjects"
    /\ error \in {MsgSelectImage, MsgClientNotReady}
    /\ reqCount = 0

\* C6: driven through the user interface, at most one detection request
\* is outstanding, and the detect button is disabled while one is, also
\* after a new image was selected during the flight.
AtMostOneOutstanding ==
    /\ Cardinality(inflight) <= 1
    /\ inflight # {} => detectDisabled
SelectedDuringFlight ==
    /\ mounted
    /\ inflight # {}
    /\ lastEvent = "handleFileSelect"
    /\ \A r \in inflight : r.file # imageFile

\* C7: every detection held in state has the canonical shape
\* {name, confidence, box: {x1, y1, x2, y2}}, in both variants.
StoredDetectionsCanonical ==
    \A i \in 1..Len(detections) :
        /\ DOMAIN detections[i] = {"name", "confidence", "box"}
        /\ DOMAIN detections[i].box = {"x1", "y1", "x2", "y2"}

\* C8: a failed request sets one error message, clears loading, leaves
\* the selected file, its preview and both dimension records as they
\* were, and leaves the detect button enabled.
FailureKeepsImageAndAllowsRetry ==
    [][(mounted /\ lastEvent' = "response:failure") =>
          /\ error' # Null
          /\ error'.message = "Failed to detect objects"
          /\ ~isLoading'
          /\ imageFile' = imageFile
          /\ imagePreview' = imagePreview
          /\ originalImageDimensions' = originalImageDimensions
          /\ displayedImageDimensions' = displayedImageDimensions
          /\ ~detectDisabled']_vars
RetryPossibleAfterFailure ==
    /\ mounted
    /\ lastEvent = "response:failure"
    /\ error # Null
    /\ originalImageDimensions # Null
    /\ ~detectDisabled

\* C9: in the client variant, once Client.connect has failed the detect
\* button is disabled and no detection request has been or is ever
\* issued, whatever is selected and however detectObjects is invoked.
\* (ConnectFailed: Client.connect has settled without a client being set.)
ConnectFailed == variant = "client" /\ ~connecting /\ client = Null
NoRequestAfterConnectFailure ==
    ConnectFailed => (detectDisabled /\ reqCount = 0 /\ inflight = {})
DetectTriedAfterConnectFailure ==
    /\ ConnectFailed
    /\ mounted
    /\ imageFile # Null
    /\ lastEvent = "detectObjects"
    /\ error = MsgClientNotReady

\* C10: while the component is mounted, the detect button is enabled
\* exactly when an image is selected, the client is ready (client
\* variant) and no request is in flight.
DetectEnabledExactlyWhenReady ==
    mounted =>
        (~detectDisabled <=>
            /\ imageFile # Null
            /\ (variant = "client" => client # Null)
            /\ inflight = {})
EnabledAgainAfterResponse ==
    /\ mounted
    /\ variant = "client"
    /\ ~detectDisabled
    /\ lastEvent = "response:success"

\* C11: every rendered rectangle has left = x1*w/W, top = y1*h/H,
\* width = (x2-x1)*w/W and height = (y2-y1)*h/H for the natural size
\* (W,H), the displayed size (w,h) and the box of its detection, and
\* with both sizes known every detection that has a box gets one.
RectanglesScaled ==
    /\ \A i \in 1..Len(overlays) :
          LET b == detections[i].box
              W == originalImageDimensions.width
              H == originalImageDimensions.height
              w == displayedImageDimensions.width
              h == displayedImageDimensions.height
              r == overlays[i].style
          IN /\ W > 0 /\ H > 0
             /\ FracEq(r.left, Frac(b.x1 * w, W))
             /\ FracEq(r.top, Frac(b.y1 * h, H))
             /\ FracEq(r.width, Frac((b.x2 - b.x1) * w, W))
             /\ FracEq(r.height, Frac((b.y2 - b.y1) * h, H))
    /\ (scaleFactors # Null /\ ~renderThrows) => Len(overlays) = Len(detections)
RectangleRenderedAtUnequalScales ==
    /\ Len(overlays) > 0
    /\ detections[1].box.x1 > 0
    /\ originalImageDimensions.height = 2 * displayedImageDimensions.height
    /\ originalImageDimensions.width = displayedImageDimensions.width

\* C12: no rectangle is rendered while the natural or the displayed
\* dimensions are null, whatever the detection list holds.
NoOverlayWithoutDimensions ==
    (originalImageDimensions = Null \/ displayedImageDimensions = Null)
        => Len(overlays) = 0
DetectionsHeldBeforeImageLoad ==
    /\ mounted
    /\ imageLoadPending
    /\ originalImageDimensions = Null
    /\ Len(detections) > 0
    /\ "box" \in DOMAIN detections[1]
    /\ Len(overlays) = 0

\* C13: a successful response with zero entries leaves no rectangle and
\* no JSON panel rendered, error null and loading cleared.
EmptyResponseShowsNothing ==
    [][(mounted /\ lastEvent' = "response:success" /\ Len(detections') = 0) =>
          /\ Len(overlays') = 0
          /\ ~jsonPanel'
          /\ error' = Null
          /\ ~isLoading']_vars
EmptyResponseOnLoadedImage ==
    /\ mounted
    /\ lastEvent = "response:success"
    /\ Len(detections) = 0
    /\ scaleFactors # Null
    /\ inflight = {}

\* C14: a window resize changes only the displayed dimensions: it
\* issues no request, leaves detections, natural dimensions, selected
\* image, error and loading flag as they were, and the rectangles
\* rendered after it are scaled by the new displayed dimensions.
ResizeChangesOnlyDisplayed ==
    [][lastEvent' = "handleResize" =>
          /\ UNCHANGED <<detections, originalImageDimensions, imageFile,
                         imagePreview, error, isLoading, inflight, reqCount>>
          /\ imagePreview # Null => displayedImageDimensions' \in DisplaySizes
          /\ \A i \in 1..Len(overlays') :
                LET b == detections[i].box
                    r == (overlays')[i].style
                IN /\ FracEq(r.left, Frac(b.x1 * displayedImageDimensions'.width,
                                          originalImageDimensions.width))
                   /\ FracEq(r.top, Frac(b.y1 * displayedImageDimensions'.height,
                                         originalImageDimensions.height))
                   /\ FracEq(r.width,
                             Frac((b.x2 - b.x1) * displayedImageDimensions'.width,
                                  originalImageDimensions.width))
                   /\ FracEq(r.height,
                             Frac((b.y2 - b.y1) * displayedImageDimensions'.height,
                                  originalImageDimensions.height))]_vars
ResizedWithOverlaysShown ==
    /\ mounted
    /\ lastEvent = "handleResize"
    /\ Len(overlays) > 0
    /\ originalImageDimensions # displayedImageDimensions

\* C15: while the component is mounted, isLoading is true exactly when
\* one request has been issued and not completed; only beginning a
\* request or a response changes it, so a file selection during the
\* flight leaves it true.
LoadingIffOneInFlight ==
    /\ [](mounted => (isLoading <=> Cardinality(inflight) = 1))
    /\ [][isLoading' # isLoading =>
             lastEvent' \in {"detectObjects", "response:success",
                             "response:failure"}]_vars
    /\ [][(isLoading /\ lastEvent' = "handleFileSelect") => isLoading']_vars
StillLoadingAfterReselect ==
    /\ mounted
    /\ isLoading
    /\ Cardinality(inflight) = 1
    /\ lastEvent = "handleFileSelect"
    /\ urlCount = 2

\* C16: whenever isLoading is true the detection list is empty and the
\* error is null.
LoadingShowsNothing ==
    isLoading => (Len(detections) = 0 /\ error = Null)
LoadingAgainAfterFirstResponse ==
    /\ mounted
    /\ isLoading
    /\ reqCount = 2
    /\ lastEvent = "detectObjects"

\* C17: a non-empty detection list and a non-null error never coexist.
DetectionsAndErrorExclusive ==
    ~(Len(detections) > 0 /\ error # Null)
ErrorShownAfterSecondRequest ==
    /\ mounted
    /\ reqCount = 2
    /\ inflight = {}
    /\ lastEvent = "response:failure"
    /\ error # Null
    /\ Len(detections) = 0

\* C18: a change event of the file input that carries no file leaves
\* the selected file, the preview, detections, error, both dimension
\* records and the loading flag as they were, revokes no blob URL and
\* issues no request.
CancelChangesNothing ==
    [][lastEvent' = "handleFileSelect:cancel" =>
          UNCHANGED <<imageFile, imagePreview, detections, error,
                      originalImageDimensions, displayedImageDimensions,
                      isLoading, client, revoked, urlCount, inflight,
                      reqCount>>]_vars
CancelledWithResultsShown ==
    /\ mounted
    /\ lastEvent = "handleFileSelect:cancel"
    /\ imagePreview # Null
    /\ originalImageDimensions # Null
    /\ Len(detections) > 0

====
